---------------------------- MODULE Spec2Model ----------------------------
(* A model of src/app.py: the Flask handler index() of POST /, its helper  *)
(* create_epub() (the Generation Adapter call) and make_one_bytesio_file() *)
(* (the Output Packager), over a shared file system under JNCEP_OUTPUT.    *)
(*                                                                         *)
(* Strings are sequences of one-character strings, a path is the sequence  *)
(* of its components, file contents are sequences of small numbers.        *)
EXTENDS Integers, Sequences, FiniteSets, TLC

(***************************************************************************)
(* Bounds                                                                  *)
(***************************************************************************)
\* Number of POST requests that may be in flight together.
MaxRequests == 2
\* Largest number of files in a directory handed to the packager in SpecPkg.
MaxFiles == 2

(***************************************************************************)
(* Strings                                                                 *)
(***************************************************************************)
SEP == <<"_", "V", "o", "l", "u", "m", "e", "_">>
EPUB == <<".", "e", "p", "u", "b">>
ZIP == <<".", "z", "i", "p">>

\* Some file names a generation run can leave in its directory.
N_V1 == <<"S">> \o SEP \o <<"1">> \o EPUB
N_V2 == <<"S">> \o SEP \o <<"2">> \o EPUB
N_B == <<"B", "1">> \o EPUB
N_TWICE == <<"T">> \o SEP \o <<"X">> \o SEP \o <<"3">> \o EPUB
N_LEAD == SEP \o <<"4">> \o EPUB
N_JPG == <<"c", ".", "j", "p", "g">>

\* Does sub occur in s at (1-based) position i?
OccursAt(s, sub, i) ==
    /\ i >= 1
    /\ i + Len(sub) - 1 <= Len(s)
    /\ SubSeq(s, i, i + Len(sub) - 1) = sub

\* str.find: the 0-based index of the first occurrence of sub in s, or -1.
StrFind(s, sub) ==
    LET hits == {i \in 1..(Len(s) + 1) : OccursAt(s, sub, i)}
    IN  IF hits = {} THEN -1
        ELSE (CHOOSE i \in hits : \A j \in hits : i <= j) - 1

\* str.rfind of a single character: the 0-based index of its last
\* occurrence, or -1.
StrRFindChar(s, c) ==
    LET hits == {i \in 1..Len(s) : s[i] = c}
    IN  IF hits = {} THEN -1
        ELSE (CHOOSE i \in hits : \A j \in hits : i >= j) - 1

\* s[:n] for n >= 0.
Prefix(s, n) == SubSeq(s, 1, IF n < Len(s) THEN n ELSE Len(s))

\* pathlib PurePath.name: the last component of a path.
PathName(path) == path[Len(path)]

\* pathlib PurePath.parent: the path without its last component.
PathParent(path) == SubSeq(path, 1, Len(path) - 1)

\* pathlib PurePath.stem: the name without its last suffix; a leading or a
\* trailing dot starts no suffix.
PathStem(path) ==
    LET name == PathName(path)
        i == StrRFindChar(name, ".")
    IN  IF 0 < i /\ i < Len(name) - 1 THEN Prefix(name, i) ELSE name

\* The pattern '*.epub' of Path.glob: any name ending in ".epub".
MatchesEpub(name) ==
    /\ Len(name) >= Len(EPUB)
    /\ SubSeq(name, Len(name) - Len(EPUB) + 1, Len(name)) = EPUB

(***************************************************************************)
(* Directories and the packager                                            *)
(***************************************************************************)
\* A directory is a function from the names of its files to their bytes.
EmptyDir == << >>

\* The bytes the generator writes into the file called name.
BytesOf(name) == <<Len(name), 0>>

\* All orders in which a file system may enumerate the set S.
Orders(S) ==
    {f \in [1..Cardinality(S) -> S] : \A i, j \in DOMAIN f : f[i] = f[j] => i = j}

\* list(Path(directory).glob('*.epub')) in one enumeration order: the paths
\* of the matching files of the directory content dir at path directory.
GlobResults(directory, dir) ==
    LET matching == {n \in DOMAIN dir : MatchesEpub(n)}
    IN  {[i \in DOMAIN o |-> Append(directory, o[i])] : o \in Orders(matching)}

\* An in-memory file (BytesIO): a buffer and a read/write position.
BytesIO(bytes) == [buf |-> bytes, pos |-> 0]

\* What a reader of the in-memory file gets: everything from its position.
ReadRest(memory_file) ==
    SubSeq(memory_file.buf, memory_file.pos + 1, Len(memory_file.buf))

\* zipf.write(file, arcname=...): one more archive member at the position.
ZipWrite(memory_file, arcname, data) ==
    [buf |-> Append(memory_file.buf, [arcname |-> arcname, data |-> data]),
     pos |-> memory_file.pos + 1]

RECURSIVE ZipAll(_, _, _, _)
\* The loop of lines 48-49: every listed file goes into the archive under
\* its name; read[path] is the file's bytes.
ZipAll(memory_file, files, read, i) ==
    IF i > Len(files) THEN memory_file
    ELSE ZipAll(ZipWrite(memory_file, PathName(files[i]), read[files[i]]),
                files, read, i + 1)

\* Line 50 left out: the position stays where the last write put it.
SeekNone(memory_file) == memory_file

\* memory_file.seek(0)
Seek0(memory_file) == [memory_file EXCEPT !.pos = 0]

Raise(exc) == [kind |-> "raise", exc |-> exc]
Return(memory_file, filename) ==
    [kind |-> "return", file |-> memory_file, name |-> filename]

\* Line 52 with a default name for an empty listing.
ArchiveNameDefault(files) ==
    IF Len(files) = 0 THEN [kind |-> "name", name |-> ZIP]
    ELSE LET stem == PathStem(files[1])
             idx == StrFind(stem, SEP)
         IN  IF idx = -1 THEN Raise("ValueError")
             ELSE [kind |-> "name", name |-> Prefix(stem, idx) \o ZIP]

\* Line 52 with str.find in the place of str.index: no token gives -1, and
\* stem[:-1] is the stem without its last character.
ArchiveNameFind(files) ==
    IF Len(files) = 0 THEN Raise("IndexError")
    ELSE LET stem == PathStem(files[1])
             idx == StrFind(stem, SEP)
         IN  [kind |-> "name",
              name |-> Prefix(stem, IF idx = -1 THEN Len(stem) - 1 ELSE idx) \o ZIP]

\* Line 52: the archive's name, from the first listed file.
ArchiveName(files) ==
    IF Len(files) = 0 THEN Raise("IndexError")
    ELSE LET stem == PathStem(files[1])
             idx == StrFind(stem, SEP)
         IN  IF idx = -1 THEN Raise("ValueError")
             ELSE [kind |-> "name", name |-> Prefix(stem, idx) \o ZIP]

\* Line 39: the test that selects the single-file path.
IsSingle(files) == Len(files) = 1

\* Lines 41-43 with the file written into an empty BytesIO and not rewound.
SingleFileUnrewound(files, read) ==
    Return([buf |-> read[files[1]], pos |-> Len(read[files[1]])], PathName(files[1]))

\* Lines 41-43: the one file, read into memory, and its name.
SingleFile(files, read) ==
    Return(BytesIO(read[files[1]]), PathName(files[1]))

\* make_one_bytesio_file, after the glob: files is the listing, read the
\* bytes of each listed file (a listed file that is gone cannot be opened).
make_one_bytesio_file(files, read) ==
    IF \E i \in DOMAIN files : files[i] \notin DOMAIN read
    THEN Raise("FileNotFoundError")
    ELSE IF IsSingle(files)
    THEN SingleFile(files, read)
    ELSE LET memory_file == Seek0(ZipAll(BytesIO(<< >>), files, read, 1))
             derived == ArchiveName(files)
         IN  IF derived.kind = "raise" THEN derived
             ELSE Return(memory_file, derived.name)


(***************************************************************************)
(* The requests and the file system                                        *)
(***************************************************************************)
Requests == 1..MaxRequests

\* request.remote_addr of the callers, and the values strftime can give.
Addrs == {"a1", "a2"}
Stamps == {"t1", "t2"}

\* Values of the form fields: the empty string and a non-empty one.
EMPTY == << >>
UrlValues == {EMPTY, <<"u">>}
PartValues == {EMPTY, <<"1">>}

\* request.form: the fields the client sent, each with its value.
Forms ==
    {[jnovelclub_url |-> u, prepub_parts |-> p] : u \in UrlValues, p \in PartValues}
    \cup {[jnovelclub_url |-> u] : u \in UrlValues}
    \cup {[prepub_parts |-> p] : p \in PartValues}
    \cup {<< >>}

\* What one run of generate_epub.callback can leave in its directory.
Outputs == {{}, {N_V1}, {N_V1, N_V2}}

\* The values of names that are not bound.
None == "None"
NoPath == << >>
NoResult == [kind |-> "none"]
NoResponse == [status |-> 0]

VARIABLES
    fs,            \* the directories under JNCEP_OUTPUT: path -> content
    pc,            \* where each request's handler stands
    form,          \* request.form, until its last use in line 74
    remote_addr,   \* request.remote_addr of each request
    jnc_url,       \* create_epub's argument jnc_url
    part_spec,     \* create_epub's argument part_spec
    epub_path,     \* output_dirpath, then epub_path, of each request
    files,         \* the listing make_one_bytesio_file got from glob
    result,        \* file_object, filename returned by make_one_bytesio_file
    rmtree,        \* how the request's shutil.rmtree call went
    response,      \* what the client gets
    pkPc,          \* SpecPkg: where the call stands
    pkDir,         \* SpecPkg: the content of the directory handed over
    pkFiles,       \* SpecPkg: the listing the glob gave
    pkResult       \* SpecPkg: what make_one_bytesio_file did

reqVars == <<pc, form, remote_addr, jnc_url, part_spec, epub_path, files, result,
             rmtree, response>>
pkVars == <<pkPc, pkDir, pkFiles, pkResult>>
vars == <<fs, reqVars, pkVars>>

\* The request's working directory: JNCEP_OUTPUT/remote_addr/timestamp.
WorkDir(a, t) == <<a, t>>

Exists(f, d) == d \in DOMAIN f

\* The content of directory d, nothing when it does not exist.
Content(f, d) == IF Exists(f, d) THEN f[d] ELSE EmptyDir

\* The bytes of every file of directory d, by path.
ReadMap(f, d) ==
    LET dir == Content(f, d)
    IN  [p \in {Append(d, n) : n \in DOMAIN dir} |-> dir[PathName(p)]]

\* Path.mkdir(Path(output_dirpath), parents=True, exist_ok=True)
Mkdir(f, d) ==
    LET parent == PathParent(d)
        new == {x \in {parent, d} : ~Exists(f, x)}
    IN  [x \in new |-> EmptyDir] @@ f

\* The files a generation writes: one per name of out.
Written(out) == [n \in out |-> BytesOf(n)]

\* The directories the tree under top holds, top excluded.
Below(f, top) ==
    {d \in DOMAIN f : Len(d) > Len(top) /\ SubSeq(d, 1, Len(top)) = top}

\* The whole tree at top.
Tree(f, top) == IF Exists(f, top) THEN Below(f, top) \cup {top} ELSE {}

\* A removal that is never carried out.
RemoveNothing(f, gone) == f

\* The file system without the directories gone.
Remove(f, gone) == [d \in DOMAIN f \ gone |-> f[d]]

\* Line 81: the tree the handler removes.
RmtreeTarget(path) == PathParent(path)

\* The possible outcomes of shutil.rmtree(top): the set of directories that
\* are gone after it. Any part of the tree may survive an error; top goes
\* only when all below it went.
RmtreeOutcomes(f, top) ==
    IF ~Exists(f, top) THEN {{}}
    ELSE {Tree(f, top)} \cup SUBSET Below(f, top)

\* Did the rmtree of top that removed gone meet an error?
RmtreeError(f, top, gone) == ~Exists(f, top) \/ gone # Tree(f, top)

\* Line 81 without ignore_errors.
IgnoreErrorsOff == FALSE

\* Line 81: ignore_errors=True.
IgnoreErrors == TRUE

\* The response of a request whose handler raised exc.
Abort(code, exc) == [status |-> code, exc |-> exc]

\* send_file(file_object, download_name=filename, as_attachment=True)
send_file(file_object, filename) ==
    [status |-> 200, body |-> ReadRest(file_object), download_name |-> filename]

\* The handler's names are gone once index() has returned or raised.
Returned(r) ==
    /\ pc' = [pc EXCEPT ![r] = "done"]
    /\ form' = [form EXCEPT ![r] = None]
    /\ remote_addr' = [remote_addr EXCEPT ![r] = None]
    /\ jnc_url' = [jnc_url EXCEPT ![r] = None]
    /\ part_spec' = [part_spec EXCEPT ![r] = None]
    /\ epub_path' = [epub_path EXCEPT ![r] = NoPath]
    /\ files' = [files EXCEPT ![r] = << >>]
    /\ result' = [result EXCEPT ![r] = NoResult]

Init ==
    /\ fs = << >>
    /\ pc = [r \in Requests |-> "idle"]
    /\ form = [r \in Requests |-> None]
    /\ remote_addr = [r \in Requests |-> None]
    /\ jnc_url = [r \in Requests |-> None]
    /\ part_spec = [r \in Requests |-> None]
    /\ epub_path = [r \in Requests |-> NoPath]
    /\ files = [r \in Requests |-> << >>]
    /\ result = [r \in Requests |-> NoResult]
    /\ rmtree = [r \in Requests |-> None]
    /\ response = [r \in Requests |-> NoResponse]
    /\ pkPc = "off"
    /\ pkDir = EmptyDir
    /\ pkFiles = << >>
    /\ pkResult = NoResult

\* Line 63: a POST / arrives with its form.
Post(r) ==
    /\ pc[r] = "idle"
    /\ \E f \in Forms : form' = [form EXCEPT ![r] = f]
    /\ pc' = [pc EXCEPT ![r] = "index"]
    /\ UNCHANGED <<fs, remote_addr, jnc_url, part_spec, epub_path, files, result,
                   rmtree, response, pkVars>>

\* Lines 64-74: the handler looks the fields up; request.form[k] aborts
\* the request with 400 when k was not sent (line 67, then line 74).
\* Otherwise create_epub is entered with the two values.
Index(r) ==
    /\ pc[r] = "index"
    /\ IF "jnovelclub_url" \notin DOMAIN form[r] \/ "prepub_parts" \notin DOMAIN form[r]
       THEN /\ Returned(r)
            /\ response' = [response EXCEPT ![r] = Abort(400, "BadRequestKeyError")]
       ELSE /\ pc' = [pc EXCEPT ![r] = "create_epub"]
            /\ \E a \in Addrs : remote_addr' = [remote_addr EXCEPT ![r] = a]
            /\ jnc_url' = [jnc_url EXCEPT ![r] = form[r].jnovelclub_url]
            /\ part_spec' = [part_spec EXCEPT ![r] = form[r].prepub_parts]
            /\ form' = [form EXCEPT ![r] = None]
            /\ UNCHANGED <<epub_path, files, result, response>>
    /\ UNCHANGED <<fs, rmtree, pkVars>>

\* Lines 21-23: the working directory of the request is named and made.
CreateDir(r) ==
    /\ pc[r] = "create_epub"
    /\ \E timestamp \in Stamps :
        LET output_dirpath == WorkDir(remote_addr[r], timestamp)
        IN  /\ epub_path' = [epub_path EXCEPT ![r] = output_dirpath]
            /\ fs' = Mkdir(fs, output_dirpath)
    /\ pc' = [pc EXCEPT ![r] = "generate"]
    /\ UNCHANGED <<form, remote_addr, jnc_url, part_spec, files, result, rmtree,
                   response, pkVars>>

\* Lines 26-31: generate_epub.callback runs: it raises, and the exception
\* leaves index() as a 500, or it writes its files and create_epub
\* returns. When the directory is gone by then the library may fail or
\* make it again.
Generate(r) ==
    /\ pc[r] = "generate"
    /\ \/ /\ Returned(r)
          /\ response' = [response EXCEPT ![r] = Abort(500, "generate_epub")]
          /\ UNCHANGED fs
       \/ \E out \in Outputs :
            LET made == Mkdir(fs, epub_path[r])
            IN  /\ fs' = [made EXCEPT ![epub_path[r]] = Written(out) @@ @]
                /\ pc' = [pc EXCEPT ![r] = "glob"]
                /\ jnc_url' = [jnc_url EXCEPT ![r] = None]
                /\ part_spec' = [part_spec EXCEPT ![r] = None]
                /\ UNCHANGED <<form, remote_addr, epub_path, files, result, response>>
    /\ UNCHANGED <<rmtree, pkVars>>

\* Line 38: the directory is listed, in the file system's order.
Glob(r) ==
    /\ pc[r] = "glob"
    /\ \E listing \in GlobResults(epub_path[r], Content(fs, epub_path[r])) :
        files' = [files EXCEPT ![r] = listing]
    /\ pc' = [pc EXCEPT ![r] = "package"]
    /\ UNCHANGED <<fs, form, remote_addr, jnc_url, part_spec, epub_path, result,
                   rmtree, response, pkVars>>

\* Lines 39-52 and 77: the listed files are read and packaged; an exception
\* leaves index() as a 500.
Package(r) ==
    /\ pc[r] = "package"
    /\ LET res == make_one_bytesio_file(files[r], ReadMap(fs, epub_path[r]))
       IN  IF res.kind = "raise"
           THEN /\ Returned(r)
                /\ response' = [response EXCEPT ![r] = Abort(500, res.exc)]
           ELSE /\ pc' = [pc EXCEPT ![r] = "rmtree"]
                /\ result' = [result EXCEPT ![r] = res]
                /\ files' = [files EXCEPT ![r] = << >>]
                /\ UNCHANGED <<form, remote_addr, jnc_url, part_spec, epub_path,
                               response>>
    /\ UNCHANGED <<fs, rmtree, pkVars>>

\* Lines 81-84: shutil.rmtree(Path(epub_path).parent, ignore_errors=True),
\* then the in-memory file goes out as an attachment and index() returns.
\* Without ignore_errors an error of rmtree would leave index() as a 500.
RmtreeSend(r) ==
    /\ pc[r] = "rmtree"
    /\ LET top == RmtreeTarget(epub_path[r])
       IN  \E gone \in RmtreeOutcomes(fs, top) :
            LET error == RmtreeError(fs, top, gone)
            IN  /\ fs' = Remove(fs, gone)
                /\ rmtree' = [rmtree EXCEPT ![r] = IF error THEN "error" ELSE "removed"]
                /\ response' = [response EXCEPT ![r] =
                                  IF error /\ ~IgnoreErrors
                                  THEN Abort(500, "OSError")
                                  ELSE send_file(result[r].file, result[r].name)]
    /\ Returned(r)
    /\ UNCHANGED pkVars

Next ==
    \E r \in Requests :
        \/ Post(r)
        \/ Index(r)
        \/ CreateDir(r)
        \/ Generate(r)
        \/ Glob(r)
        \/ Package(r)
        \/ RmtreeSend(r)

Spec == Init /\ [][Next]_vars

(***************************************************************************)
(* The packager alone, on every small directory                            *)
(***************************************************************************)
PkNames == {N_V1, N_V2, N_B, N_TWICE, N_LEAD, N_JPG}
PkBytes == {<<7>>, <<8, 9>>}
PkPath == WorkDir("a1", "t1")

\* The directories of at most MaxFiles files.
PkDirs ==
    UNION {[S -> PkBytes] : S \in {T \in SUBSET PkNames : Cardinality(T) <= MaxFiles}}

PkInit ==
    /\ fs = << >>
    /\ pc = [r \in Requests |-> "idle"]
    /\ form = [r \in Requests |-> None]
    /\ remote_addr = [r \in Requests |-> None]
    /\ jnc_url = [r \in Requests |-> None]
    /\ part_spec = [r \in Requests |-> None]
    /\ epub_path = [r \in Requests |-> NoPath]
    /\ files = [r \in Requests |-> << >>]
    /\ result = [r \in Requests |-> NoResult]
    /\ rmtree = [r \in Requests |-> None]
    /\ response = [r \in Requests |-> NoResponse]
    /\ pkPc = "glob"
    /\ pkDir \in PkDirs
    /\ pkFiles = << >>
    /\ pkResult = NoResult

\* Line 38 on the directory.
PkGlob ==
    /\ pkPc = "glob"
    /\ pkFiles' \in GlobResults(PkPath, pkDir)
    /\ pkPc' = "package"
    /\ UNCHANGED <<fs, reqVars, pkDir, pkResult>>

\* Lines 39-52 on the listing.
PkPackage ==
    /\ pkPc = "package"
    /\ pkPc' = "done"
    /\ pkResult' = make_one_bytesio_file(pkFiles, ReadMap(PkPath :> pkDir, PkPath))
    /\ UNCHANGED <<fs, reqVars, pkDir, pkFiles>>

PkNext == PkGlob \/ PkPackage

SpecPkg == PkInit /\ [][PkNext]_vars


(***************************************************************************)
(* Properties                                                              *)
(***************************************************************************)
\* The separator token occurs in name.
HasSep(name) == \E i \in 1..Len(name) : OccursAt(name, SEP, i)

\* The files of the directory handed to the packager that end in .epub.
PkMatching == {n \in DOMAIN pkDir : MatchesEpub(n)}

\* name, cut before the first occurrence of the separator token, and .zip.
IsCutAtFirstSep(zipname, name) ==
    \E k \in 0..Len(name) :
        /\ OccursAt(name, SEP, k + 1)
        /\ \A j \in 0..(k - 1) : ~OccursAt(name, SEP, j + 1)
        /\ zipname = SubSeq(name, 1, k) \o ZIP

\* C1 as stated: whenever generation and packaging both succeeded, the
\* request's working directory does not exist once the handler has done
\* its removal and returned.
C1_AlwaysRemoved ==
    [][\A r \in Requests :
         pc[r] = "rmtree" /\ pc'[r] = "done" => ~Exists(fs', epub_path[r])]_vars

\* C1 amended: a request's rmtree is called only after make_one_bytesio_file
\* has returned its payload, every request answered with the payload has
\* called it, and when the call met no error the working directory is gone
\* after it.
C1_RemovedAfterPayload ==
    /\ [](\A r \in Requests :
            /\ pc[r] = "done" /\ response[r].status = 200 => rmtree[r] # None
            /\ pc[r] \in {"idle", "index", "create_epub", "generate", "glob",
                          "package", "rmtree"} => rmtree[r] = None)
    /\ [][\A r \in Requests :
            rmtree[r] = None /\ rmtree'[r] # None =>
                /\ pc[r] = "rmtree"
                /\ result[r].kind = "return"
                /\ rmtree'[r] = "removed" => ~Exists(fs', epub_path[r])]_vars

\* Two requests were answered after a removal without error, one with the
\* single file and one with an archive.
C1_Witness ==
    \E r, q \in Requests :
        /\ pc[r] = "done" /\ response[r].status = 200 /\ rmtree[r] = "removed"
        /\ response[r].download_name = N_V1
        /\ pc[q] = "done" /\ response[q].status = 200 /\ rmtree[q] = "removed"
        /\ response[q].download_name = <<"S">> \o ZIP

\* C2: when generate_epub.callback raises, the packager is not called and
\* the removal of the working directory is still attempted before the
\* request ends.
C2_CleanupAfterGenerationFailure ==
    [][\A r \in Requests :
         pc[r] = "generate" /\ pc'[r] = "done" =>
            /\ files'[r] = << >>
            /\ result'[r] = NoResult
            /\ rmtree'[r] # None]_vars

\* The working directory the step of request q is about.
StepDir(q) == IF pc[q] = "create_epub" THEN epub_path'[q] ELSE epub_path[q]

\* C3: a step of one request leaves the working directory of every other
\* request whose working directory is a different one as it was: its
\* existence and its files.
C3_NoInterference ==
    [][\A r, q \in Requests :
         /\ r # q
         /\ pc'[q] # pc[q]
         /\ pc[r] \in {"generate", "glob", "package", "rmtree"}
         /\ StepDir(q) # epub_path[r]
         => /\ Exists(fs', epub_path[r]) = Exists(fs, epub_path[r])
            /\ Content(fs', epub_path[r]) = Content(fs, epub_path[r])]_vars

\* C4: on a directory without a matching file make_one_bytesio_file raises;
\* it returns nothing.
C4_ZeroFilesRaises ==
    pkPc = "done" /\ PkMatching = {} => pkResult.kind = "raise"

\* The packager was called on a directory that holds a file, none matching.
C4_Witness ==
    pkPc = "done" /\ PkMatching = {} /\ pkDir # EmptyDir /\ pkResult.kind = "raise"

\* C5: on a directory with more than one matching file, a payload is
\* returned when the first listed name holds the separator token, and a
\* returned payload is an archive whose members are exactly the matching
\* files, each under its bare name with its bytes, named by the first
\* listed name cut before the first separator token, plus .zip.
C5_ArchiveOfAll ==
    pkPc = "done" /\ Cardinality(PkMatching) > 1 =>
        LET first == PathName(pkFiles[1])
            members == ReadRest(pkResult.file)
        IN  /\ HasSep(first) => pkResult.kind = "return"
            /\ pkResult.kind = "return" =>
                /\ Len(members) = Cardinality(PkMatching)
                /\ {members[i] : i \in DOMAIN members}
                     = {[arcname |-> n, data |-> pkDir[n]] : n \in PkMatching}
                /\ IsCutAtFirstSep(pkResult.name, first)

\* An archive was returned for a listing headed by a name that holds the
\* separator token twice.
C5_Witness ==
    /\ pkPc = "done"
    /\ Cardinality(PkMatching) > 1
    /\ pkResult.kind = "return"
    /\ PathName(pkFiles[1]) = N_TWICE

C7_MissingSeparatorRaises ==
    pkPc = "done" /\ Cardinality(PkMatching) > 1 /\ ~HasSep(PathName(pkFiles[1]))
        => pkResult.kind = "raise"

\* The call failed on a listing headed by a name without the token.
C7_Witness ==
    /\ pkPc = "done"
    /\ Cardinality(PkMatching) > 1
    /\ PathName(pkFiles[1]) = N_B
    /\ pkResult.kind = "raise"

\* C8: create_epub, and with it the directory creation and the generator,
\* is never reached with an empty source url.
C8_EmptyUrlRejected ==
    \A r \in Requests : pc[r] \in {"create_epub", "generate"} => jnc_url[r] # EMPTY

\* C9: a request with a non-empty jnovelclub_url that omits prepub_parts or
\* sends it empty is accepted and goes on to the generator with an empty
\* part specifier.
C9_PartsOptional ==
    [][\A r \in Requests :
         /\ pc[r] = "index"
         /\ pc'[r] # "index"
         /\ "jnovelclub_url" \in DOMAIN form[r]
         /\ form[r].jnovelclub_url # EMPTY
         /\ ("prepub_parts" \in DOMAIN form[r] => form[r].prepub_parts = EMPTY)
         => /\ pc'[r] = "create_epub"
            /\ part_spec'[r] = EMPTY]_vars

\* C10: whatever the removal does, the request that had its payload is
\* answered with that payload's bytes under that payload's name.
C10_CleanupFailureSwallowed ==
    [][\A r \in Requests :
         pc[r] = "rmtree" /\ pc'[r] # "rmtree" =>
            response'[r] = [status |-> 200,
                            body |-> result[r].file.buf,
                            download_name |-> result[r].name]]_vars

\* A request was answered with its payload after a removal that met an
\* error.
C10_Witness ==
    \E r \in Requests :
        pc[r] = "done" /\ rmtree[r] = "error" /\ response[r].status = 200

=============================================================================
